---------------------------- MODULE Spec2Model ----------------------------
(***************************************************************************)
(* Model of StockOptimizer's sector-weight rule checker                    *)
(* (check_portfolio_rules and connected_components_from_adj).              *)
(*                                                                         *)
(* The checker is one synchronous function.  The model runs it as a        *)
(* pipeline whose stages are the commented sections of the code:           *)
(*   normalize -> rule1 -> rule2 -> rule3 -> rule4 -> rule5 -> summary     *)
(*   -> done,  or  raised  when a stage raises an exception.               *)
(*                                                                         *)
(* Weights are float64 in the code.  The model computes them with the      *)
(* same IEEE-754 binary64 round-to-nearest-even arithmetic, on fixed-point *)
(* magnitudes held as little-endian sequences of limbs, so that a sum      *)
(* that lands exactly on a threshold in the code does so in the model.     *)
(***************************************************************************)
EXTENDS Integers, Sequences, FiniteSets

\* ------------------------------------------------------------------------
\* Sequence helpers
\* ------------------------------------------------------------------------
Range(s) == {s[i] : i \in 1..Len(s)}

Abs(x) == IF x < 0 THEN -x ELSE x

\* list.index(x): position of the first occurrence, 0 when absent (where
\* Python raises ValueError)
RECURSIVE IndexFrom(_, _, _)
IndexFrom(s, x, i) ==
    IF i > Len(s) THEN 0
    ELSE IF s[i] = x THEN i
    ELSE IndexFrom(s, x, i + 1)

IndexOf(s, x) == IndexFrom(s, x, 1)

\* [x for x in s if x in keep]
RECURSIVE FilterSeq(_, _)
FilterSeq(s, keep) ==
    IF s = << >> THEN << >>
    ELSE IF Head(s) \in keep THEN <<Head(s)>> \o FilterSeq(Tail(s), keep)
    ELSE FilterSeq(Tail(s), keep)

\* ------------------------------------------------------------------------
\* float64 arithmetic (dtype=float of the weight array)
\*
\* A finite value is sign and magnitude; the magnitude counts units of
\* 2^-(LimbBits*FracLimbs) and is a sequence of NLimbs limbs, least
\* significant first.  Every value the checker computes from the modelled
\* inputs is a multiple of that unit, so the representation is exact and
\* only the rounding to MantBits significant bits loses information, as in
\* the hardware.
\* ------------------------------------------------------------------------
LimbBits == 15
Base == 2^LimbBits
FracLimbs == 6
NLimbs == 8
MantBits == 53

Limbs == 1..NLimbs

ZeroMag == [i \in Limbs |-> 0]

\* 2^k units
Pow2Mag(k) == [i \in Limbs |-> IF i = (k \div LimbBits) + 1 THEN 2^(k % LimbBits) ELSE 0]

\* the integer t (0 <= t < Base^2) as a magnitude
IntMag(t) ==
    [i \in Limbs |-> IF i = FracLimbs + 1 THEN t % Base
                     ELSE IF i = FracLimbs + 2 THEN t \div Base
                     ELSE 0]

RECURSIVE CmpFrom(_, _, _)
CmpFrom(a, b, i) ==
    IF i = 0 THEN 0
    ELSE IF a[i] > b[i] THEN 1
    ELSE IF a[i] < b[i] THEN -1
    ELSE CmpFrom(a, b, i - 1)

\* -1, 0, 1 as a < b, a = b, a > b
CmpMag(a, b) == CmpFrom(a, b, NLimbs)

RECURSIVE AddFrom(_, _, _, _)
AddFrom(a, b, i, c) ==
    IF i > NLimbs THEN << >>
    ELSE LET t == a[i] + b[i] + c
         IN  <<t % Base>> \o AddFrom(a, b, i + 1, t \div Base)

AddMag(a, b) == AddFrom(a, b, 1, 0)

\* a - b for a >= b
RECURSIVE SubFrom(_, _, _, _)
SubFrom(a, b, i, c) ==
    IF i > NLimbs THEN << >>
    ELSE LET t == a[i] - b[i] - c
         IN  IF t < 0 THEN <<t + Base>> \o SubFrom(a, b, i + 1, 1)
             ELSE <<t>> \o SubFrom(a, b, i + 1, 0)

SubMag(a, b) == SubFrom(a, b, 1, 0)

RECURSIVE MulFrom(_, _, _, _)
MulFrom(a, k, i, c) ==
    IF i > NLimbs THEN << >>
    ELSE LET t == a[i] * k + c
         IN  <<t % Base>> \o MulFrom(a, k, i + 1, t \div Base)

\* a * k for a small natural k
MulSmall(a, k) == MulFrom(a, k, 1, 0)

\* long division by a small natural d, most significant limb first:
\* quotient limbs 1..i and the remainder
RECURSIVE DivFrom(_, _, _, _)
DivFrom(a, d, i, r) ==
    IF i = 0 THEN [q |-> << >>, r |-> r]
    ELSE LET cur  == r * Base + a[i]
             rest == DivFrom(a, d, i - 1, cur % d)
         IN  [q |-> Append(rest.q, cur \div d), r |-> rest.r]

DivSmall(a, d) == DivFrom(a, d, NLimbs, 0)

RECURSIVE BitLenNat(_)
BitLenNat(x) == IF x = 0 THEN 0 ELSE 1 + BitLenNat(x \div 2)

RECURSIVE TopLimb(_, _)
TopLimb(a, i) == IF i = 0 THEN 0 ELSE IF a[i] # 0 THEN i ELSE TopLimb(a, i - 1)

\* number of significant bits of a magnitude
BitLen(a) ==
    LET t == TopLimb(a, NLimbs)
    IN  IF t = 0 THEN 0 ELSE LimbBits * (t - 1) + BitLenNat(a[t])

\* Round a magnitude to MantBits significant bits, to nearest, ties to even.
\* sticky says that the exact value lies strictly above the magnitude
\* (a division left a remainder).
Round53(a, sticky) ==
    LET L == BitLen(a)
    IN  IF L <= MantBits THEN a
        ELSE
          LET d     == L - MantBits
              q     == d \div LimbBits
              r     == d % LimbBits
              cut   == 2^r
              low   == [i \in Limbs |-> IF i <= q THEN a[i]
                                        ELSE IF i = q + 1 THEN a[i] % cut
                                        ELSE 0]
              trunc == [i \in Limbs |-> IF i <= q THEN 0
                                        ELSE IF i = q + 1 THEN a[i] - (a[i] % cut)
                                        ELSE a[i]]
              c     == CmpMag(low, Pow2Mag(d - 1))
              odd   == (a[q + 1] \div cut) % 2 = 1
              up    == c > 0 \/ (c = 0 /\ (sticky \/ odd))
          IN  IF up THEN AddMag(trunc, Pow2Mag(d)) ELSE trunc

NaN == [k |-> "nan"]
Inf(neg) == [k |-> "inf", neg |-> neg]
Fin(neg, mag) == [k |-> "fin", neg |-> (neg /\ mag # ZeroMag), mag |-> mag]
FZero == Fin(FALSE, ZeroMag)

\* float(t) for a small integer t
FromInt(t) == Fin(t < 0, IntMag(Abs(t)))

\* float(w) / float(s) for small integers (numpy: x/0 is +-inf, 0/0 is nan)
FDivInt(w, s) ==
    IF s = 0 THEN (IF w = 0 THEN NaN ELSE Inf(w < 0))
    ELSE LET qr == DivSmall(IntMag(Abs(w)), Abs(s))
         IN  Fin((w < 0) # (s < 0), Round53(qr.q, qr.r # 0))

\* x * float(k) for a small natural k
FMulInt(x, k) ==
    IF x.k = "fin" THEN Fin(x.neg, Round53(MulSmall(x.mag, k), FALSE))
    ELSE x

\* x + y
FAdd(x, y) ==
    IF x.k = "nan" \/ y.k = "nan" THEN NaN
    ELSE IF x.k = "inf" /\ y.k = "inf" THEN (IF x.neg = y.neg THEN x ELSE NaN)
    ELSE IF x.k = "inf" THEN x
    ELSE IF y.k = "inf" THEN y
    ELSE IF x.neg = y.neg THEN Fin(x.neg, Round53(AddMag(x.mag, y.mag), FALSE))
    ELSE IF CmpMag(x.mag, y.mag) >= 0
         THEN Fin(x.neg, Round53(SubMag(x.mag, y.mag), FALSE))
    ELSE Fin(y.neg, Round53(SubMag(y.mag, x.mag), FALSE))

\* -1, 0, 1 as x < y, x = y, x > y, for x and y not nan
FCmp(x, y) ==
    IF x.k = "inf" /\ y.k = "inf"
      THEN (IF x.neg = y.neg THEN 0 ELSE IF x.neg THEN -1 ELSE 1)
    ELSE IF x.k = "inf" THEN (IF x.neg THEN -1 ELSE 1)
    ELSE IF y.k = "inf" THEN (IF y.neg THEN 1 ELSE -1)
    ELSE IF x.neg # y.neg THEN (IF x.neg THEN -1 ELSE 1)
    ELSE IF x.neg THEN CmpMag(y.mag, x.mag)
    ELSE CmpMag(x.mag, y.mag)

\* the comparison operators of the language: every one is False on nan
FGt(x, y) == x.k # "nan" /\ y.k # "nan" /\ FCmp(x, y) > 0
FLt(x, y) == x.k # "nan" /\ y.k # "nan" /\ FCmp(x, y) < 0
FLe(x, y) == x.k # "nan" /\ y.k # "nan" /\ FCmp(x, y) <= 0
FGe(x, y) == x.k # "nan" /\ y.k # "nan" /\ FCmp(x, y) >= 0

\* ------------------------------------------------------------------------
\* numpy / pandas operations the checker calls
\* ------------------------------------------------------------------------
RECURSIVE IntSum(_)
IntSum(s) == IF s = << >> THEN 0 ELSE Head(s) + IntSum(Tail(s))

\* weights / weights.sum() * 100, element by element
Normalize(raw) ==
    LET total == IntSum(raw)
    IN  [i \in 1..Len(raw) |-> FMulInt(FDivInt(raw[i], total), 100)]

RECURSIVE FirstNaN(_, _)
FirstNaN(ws, i) ==
    IF i > Len(ws) THEN 0
    ELSE IF ws[i].k = "nan" THEN i
    ELSE FirstNaN(ws, i + 1)

RECURSIVE ArgMaxFrom(_, _, _)
ArgMaxFrom(ws, i, best) ==
    IF i > Len(ws) THEN best
    ELSE IF FGt(ws[i], ws[best]) THEN ArgMaxFrom(ws, i + 1, i)
    ELSE ArgMaxFrom(ws, i + 1, best)

\* np.argmax of a non-empty array: the first nan if there is one, otherwise
\* the first position holding the maximum
ArgMax(ws) ==
    IF FirstNaN(ws, 1) # 0 THEN FirstNaN(ws, 1) ELSE ArgMaxFrom(ws, 2, 1)

\* numpy's add.reduce over a contiguous float64 array (pairwise summation):
\* fewer than PwUnroll terms are added from left to right; up to PwBlockSize
\* terms are added into PwUnroll running sums that are then combined as
\* ((r0+r1)+(r2+r3))+((r4+r5)+(r6+r7)), the terms past the last full group
\* of PwUnroll being added to that result one by one; longer arrays are
\* split in two at a multiple of PwUnroll.
PwUnroll == 8
PwBlockSize == 128

\* acc + vals[i] + vals[i+1] + ... + vals[j], added in that order
RECURSIVE SumFrom(_, _, _, _)
SumFrom(vals, i, j, acc) ==
    IF i > j THEN acc
    ELSE SumFrom(vals, i + 1, j, FAdd(acc, vals[i]))

\* the running sum r[lane]: acc + vals[i] + vals[i+PwUnroll] + ... up to full
RECURSIVE LaneFrom(_, _, _, _)
LaneFrom(vals, i, full, acc) ==
    IF i > full THEN acc
    ELSE LaneFrom(vals, i + PwUnroll, full, FAdd(acc, vals[i]))

\* the block case: Len(vals) in PwUnroll..PwBlockSize
BlockSum(vals) ==
    LET n    == Len(vals)
        full == n - (n % PwUnroll)
        r    == [lane \in 1..PwUnroll |->
                    LaneFrom(vals, lane + PwUnroll, full, vals[lane])]
        res  == FAdd(FAdd(FAdd(r[1], r[2]), FAdd(r[3], r[4])),
                     FAdd(FAdd(r[5], r[6]), FAdd(r[7], r[8])))
    IN  SumFrom(vals, full + 1, n, res)

RECURSIVE PairwiseSum(_)
PairwiseSum(vals) ==
    LET n == Len(vals)
    IN  IF n < PwUnroll THEN SumFrom(vals, 1, n, FZero)
        ELSE IF n <= PwBlockSize THEN BlockSum(vals)
        ELSE LET half == n \div 2
                 n2   == half - (half % PwUnroll)
             IN  FAdd(PairwiseSum(SubSeq(vals, 1, n2)),
                      PairwiseSum(SubSeq(vals, n2 + 1, n)))

\* Series.sum(): nan entries are replaced by 0 (skipna), then the array is
\* summed by add.reduce
SeriesSum(vals) ==
    PairwiseSum([i \in 1..Len(vals) |-> IF vals[i].k = "nan" THEN FZero ELSE vals[i]])

\* weight_series[names]: the weights of the named sectors, in the order named
Select(secs, ws, names) == [i \in 1..Len(names) |-> ws[IndexOf(secs, names[i])]]

\* ------------------------------------------------------------------------
\* connected_components_from_adj
\* The traversal state st carries visited, stack, comp, and marked: the
\* order in which the members of the component were marked visited (the
\* code keeps no such list; it records when line 13 and line 19 run).
\* ------------------------------------------------------------------------
\* for v in range(n): if adj[u, v] and not visited[v]: mark and push
RECURSIVE ScanNeighbours(_, _, _, _)
ScanNeighbours(adj, u, v, st) ==
    IF v > Len(adj) THEN st
    ELSE IF adj[u][v] /\ ~st.visited[v]
      THEN ScanNeighbours(adj, u, v + 1,
                          [st EXCEPT !.visited[v] = TRUE,
                                     !.stack = Append(@, v),
                                     !.marked = Append(@, v)])
    ELSE ScanNeighbours(adj, u, v + 1, st)

\* Variant of PopVisit: takes the oldest entry (a queue) instead of the newest
PopVisitFifo(st) ==
    [st EXCEPT !.stack = Tail(@), !.comp = Append(@, Head(st.stack))]

\* u = stack.pop(); comp.append(u): the last element of comp is then u
PopVisit(st) ==
    [st EXCEPT !.stack = SubSeq(@, 1, Len(@) - 1),
               !.comp = Append(@, st.stack[Len(st.stack)])]

\* one turn of the while loop: pop u, then scan its neighbours
VisitNext(adj, st) ==
    ScanNeighbours(adj, PopVisit(st).comp[Len(PopVisit(st).comp)], 1, PopVisit(st))

\* while stack: ...
RECURSIVE Traverse(_, _)
Traverse(adj, st) ==
    IF st.stack = << >> THEN st
    ELSE Traverse(adj, VisitNext(adj, st))

\* for i in range(n): if not visited[i]: ...
RECURSIVE ComponentsFrom(_, _, _)
ComponentsFrom(adj, i, acc) ==
    IF i > Len(adj) THEN acc
    ELSE IF acc.visited[i] THEN ComponentsFrom(adj, i + 1, acc)
    ELSE LET st == Traverse(adj, [visited |-> [acc.visited EXCEPT ![i] = TRUE],
                                  stack   |-> <<i>>,
                                  comp    |-> << >>,
                                  marked  |-> <<i>>])
         IN  ComponentsFrom(adj, i + 1,
                            [visited |-> st.visited,
                             comps   |-> Append(acc.comps, st.comp),
                             marks   |-> Append(acc.marks, st.marked)])

TraversalResult(adj) ==
    ComponentsFrom(adj, 1, [visited |-> [i \in 1..Len(adj) |-> FALSE],
                            comps   |-> << >>,
                            marks   |-> << >>])

\* the returned comps: a list of lists of indices (1-based here)
connected_components_from_adj(adj) == TraversalResult(adj).comps

\* per component, the order in which its members were marked visited
marking_order(adj) == TraversalResult(adj).marks

\* ------------------------------------------------------------------------
\* check_portfolio_rules: configuration
\* ------------------------------------------------------------------------
high_corr_pairs ==
    << <<"Information Technology", "Communication Services">>,
       <<"Energy", "Materials">>,
       <<"Consumer Staples", "Health Care">>,
       <<"Industrials", "Financials">>,
       <<"Consumer Discretionary", "Communication Services">> >>

defensive == <<"Consumer Staples", "Health Care", "Utilities">>

cyclical == <<"Energy", "Materials">>

\* Python's  sub in s  for strings: sub occurs in s at some offset
Contains(sub, s) ==
    \E i \in 0..(Len(s) - Len(sub)) : SubSeq(s, i + 1, i + Len(sub)) = sub

\* 'Real Estate' in s
ContainsRealEstate(s) == Contains("Real Estate", s)

\* Correlations are held in tenths: 10 on the diagonal (np.identity), 7 for
\* a listed pair, 0 elsewhere; the threshold 0.6 is 6.
CorrSelf == 10
CorrHigh == 7
CorrThreshold == 6

\* for s1, s2 in high_corr_pairs: i = sectors.index(s1); j = sectors.index(s2)
\* the first pair, from p on, that names an absent sector; 0 when none does
RECURSIVE FirstMissingPair(_, _)
FirstMissingPair(secs, p) ==
    IF p > Len(high_corr_pairs) THEN 0
    ELSE IF IndexOf(secs, high_corr_pairs[p][1]) = 0
            \/ IndexOf(secs, high_corr_pairs[p][2]) = 0 THEN p
    ELSE FirstMissingPair(secs, p + 1)

\* corr_matrix after the loop over high_corr_pairs (every pair present)
CorrMatrix(secs) ==
    [i \in 1..Len(secs) |-> [j \in 1..Len(secs) |->
        IF \E p \in 1..Len(high_corr_pairs) :
              {i, j} = {IndexOf(secs, high_corr_pairs[p][1]),
                        IndexOf(secs, high_corr_pairs[p][2])}
          THEN CorrHigh
        ELSE IF i = j THEN CorrSelf
        ELSE 0]]

\* Variant of Adjacency: the threshold set at the listed coefficient itself
AdjacencyAboveHigh(corr) ==
    [i \in 1..Len(corr) |-> [j \in 1..Len(corr) |->
        IF i = j THEN FALSE ELSE corr[i][j] > CorrHigh]]

\* adj = (corr_matrix > 0.6); np.fill_diagonal(adj, 0)
Adjacency(corr) ==
    [i \in 1..Len(corr) |-> [j \in 1..Len(corr) |->
        IF i = j THEN FALSE ELSE corr[i][j] > CorrThreshold]]

\* Variant of Rule1Status: the hard threshold compared with >=
Rule1StatusInclusive(max_weight) ==
    IF FGe(max_weight, FromInt(40)) THEN "HARD_VIOLATION"
    ELSE IF FGt(max_weight, FromInt(30)) THEN "SOFT_WARNING"
    ELSE "OK"

Rule1Status(max_weight) ==
    IF FGt(max_weight, FromInt(40)) THEN "HARD_VIOLATION"
    ELSE IF FGt(max_weight, FromInt(30)) THEN "SOFT_WARNING"
    ELSE "OK"

\* Variant of ClusterStatus: the soft threshold compared with >=
ClusterStatusInclusive(comp_weight) ==
    IF FGt(comp_weight, FromInt(60)) THEN "HARD_VIOLATION"
    ELSE IF FGe(comp_weight, FromInt(50)) THEN "SOFT_WARNING"
    ELSE "none"

\* the status of a cluster's violation entry, "none" when it gets no entry
ClusterStatus(comp_weight) ==
    IF FGt(comp_weight, FromInt(60)) THEN "HARD_VIOLATION"
    ELSE IF FGt(comp_weight, FromInt(50)) THEN "SOFT_WARNING"
    ELSE "none"

Rule3Status(defensive_sum) ==
    IF FLt(defensive_sum, FromInt(5)) THEN "HARD_VIOLATION"
    ELSE IF FLt(defensive_sum, FromInt(10)) THEN "SOFT_WARNING"
    ELSE "OK"

Rule4Status(reit_sum) ==
    IF FGt(reit_sum, FromInt(20)) THEN "HARD_VIOLATION"
    ELSE IF FGt(reit_sum, FromInt(15)) THEN "SOFT_WARNING"
    ELSE "OK"

Rule5Status(em_sum) ==
    IF FGt(em_sum, FromInt(25)) THEN "HARD_VIOLATION"
    ELSE IF FGt(em_sum, FromInt(20)) THEN "SOFT_WARNING"
    ELSE IF FGt(em_sum, FromInt(15)) THEN "ADVISORY"
    ELSE "OK"

\* defensive_sum = weight_series[[s for s in defensive if s in sectors]].sum()
DefensiveSum(secs, ws) ==
    SeriesSum(Select(secs, ws, FilterSeq(defensive, Range(secs))))

\* reits = [s for s in sectors if 'Real Estate' in s]
\* reit_sum = weight_series[reits].sum() if reits else 0
ReitSum(secs, ws) ==
    LET reits == FilterSeq(secs, {s \in Range(secs) : ContainsRealEstate(s)})
    IN  IF reits # << >> THEN SeriesSum(Select(secs, ws, reits)) ELSE FZero

\* em = [s for s in ['Energy','Materials'] if s in sectors]
\* em_sum = weight_series[em].sum() if em else 0
EmSum(secs, ws) ==
    LET em == FilterSeq(cyclical, Range(secs))
    IN  IF em # << >> THEN SeriesSum(Select(secs, ws, em)) ELSE FZero

\* [c for c in report['checks'] if c.get('status') == status]
RECURSIVE WithStatus(_, _)
WithStatus(chks, status) ==
    IF chks = << >> THEN << >>
    ELSE IF Head(chks).status = status
      THEN <<Head(chks)>> \o WithStatus(Tail(chks), status)
    ELSE WithStatus(Tail(chks), status)

\* Variant of SummaryOf: the cluster entries nested in Rule 2 are scanned too
SummaryOfNested(chks) ==
    LET nested == IF Len(chks) >= 2 THEN chks[2].violations ELSE << >>
        hard_violations == WithStatus(chks \o nested, "HARD_VIOLATION")
        soft_warnings   == WithStatus(chks \o nested, "SOFT_WARNING")
    IN  [hard_violations_count |-> Len(hard_violations),
         soft_warnings_count   |-> Len(soft_warnings),
         hard_violations       |-> hard_violations,
         soft_warnings         |-> soft_warnings]

\* report['summary']
SummaryOf(chks) ==
    LET hard_violations == WithStatus(chks, "HARD_VIOLATION")
        soft_warnings   == WithStatus(chks, "SOFT_WARNING")
    IN  [hard_violations_count |-> Len(hard_violations),
         soft_warnings_count   |-> Len(soft_warnings),
         hard_violations       |-> hard_violations,
         soft_warnings         |-> soft_warnings]

\* comp_sectors = [sectors[i] for i in comp]
comp_sectors(secs, comp) == [k \in 1..Len(comp) |-> secs[comp[k]]]

\* comp_weight = weight_series[comp_sectors].sum()
comp_weight(secs, ws, comp) == SeriesSum(Select(secs, ws, comp_sectors(secs, comp)))

\* corr_violations: an entry for each cluster from c on whose weight has a
\* status, in cluster order
RECURSIVE Violations(_, _, _, _)
Violations(secs, cs, cws, c) ==
    IF c > Len(cs) THEN << >>
    ELSE IF ClusterStatus(cws[c]) = "none" THEN Violations(secs, cs, cws, c + 1)
    ELSE <<[status |-> ClusterStatus(cws[c]), members |-> comp_sectors(secs, cs[c])]>>
         \o Violations(secs, cs, cws, c + 1)

\* the Rule 2 finding (the report's weight_sum and avg_corr, display values
\* rounded from the locals, are not carried)
Rule2Finding(secs, cs, cws) ==
    [rule |-> 2, status |-> "ANALYZED",
     components |-> [c \in 1..Len(cs) |-> [members |-> comp_sectors(secs, cs[c])]],
     violations |-> Violations(secs, cs, cws, 1)]

\* ------------------------------------------------------------------------
\* Inputs
\* ------------------------------------------------------------------------
sector_list ==
    <<"Information Technology", "Communication Services", "Consumer Discretionary",
      "Consumer Staples", "Health Care", "Financials", "Industrials",
      "Energy", "Materials", "Real Estate", "Utilities">>

SectorNames == Range(sector_list)

example_weights ==
    [s \in SectorNames |->
        CASE s = "Information Technology" -> 28
          [] s = "Communication Services" -> 12
          [] s = "Consumer Discretionary" -> 10
          [] s = "Consumer Staples"       -> 6
          [] s = "Health Care"            -> 10
          [] s = "Financials"             -> 8
          [] s = "Industrials"            -> 10
          [] s = "Energy"                 -> 5
          [] s = "Materials"              -> 4
          [] s = "Real Estate"            -> 4
          [] s = "Utilities"              -> 3]

\* Bounds of the input families
MaxShift == 12
MaxRotation == 10
MaxReits == 17

\* every sector at the same raw weight
Level(c) == [s \in SectorNames |-> c]
Levels == {0, 1, 100}
EditValues == {-5, 0, 1, 15, 40, 100}

\* d points of weight moved from sector a to sector b (a may go negative)
Transfer(w, a, b, d) ==
    IF a = b THEN w ELSE [w EXCEPT ![a] = @ - d, ![b] = @ + d]

Reverse(s) == [i \in 1..Len(s) |-> s[Len(s) + 1 - i]]

\* the dict keys in insertion order: the list base rotated left by k
Rotation(base, k) ==
    [i \in 1..Len(base) |-> base[((i - 1 + k) % Len(base)) + 1]]

\* the dict {name: w[name]} over the names of order that are in present
Portfolio(order, present, w) ==
    LET names == FilterSeq(order, present)
    IN  [i \in 1..Len(names) |-> <<names[i], w[names[i]]>>]

\* sector names a portfolio may carry beyond sector_list
ExtraNames == {"Equity Real Estate", "Real Estate Investment Trusts", "Realty"}

\* the weights w with one more sector x at raw weight v
WithExtra(w, x, v) ==
    [s \in DOMAIN w \cup {x} |-> IF s = x THEN v ELSE w[s]]

\* the k-th of a run of sector names that contain 'Real Estate'
Digits == <<"0", "1", "2", "3", "4", "5", "6", "7", "8", "9">>
Decimal(k) ==
    IF k < 10 THEN Digits[k + 1] ELSE Digits[(k \div 10) + 1] \o Digits[(k % 10) + 1]
ReitName(k) == IF k = 1 THEN "Real Estate" ELSE "Real Estate " \o Decimal(k)

\* raw weights of the sectors named in high_corr_pairs (the leading names
\* of sector_list) and of the real-estate names after them
TableWeights ==
    {<<13, 15, 6, 18, 16, 0, 3, 0, 33>>,
     <<16, 97, 27, 178, 120, 12, 49, 33, 28>>,
     <<1, 1, 13, 7, 5, 5, 13, 5, 1>>}
ReitPatterns ==
    {<<1, 3, 5, 1, 3, 6, 1, 6>>,
     <<33, 5, 6, 6, 51, 1, 34, 4>>,
     <<3, 11, 7, 1, 7, 1, 5, 11>>}

\* the table sectors at weights t followed by m real-estate names whose
\* weights repeat the pattern r
ReitPortfolio(t, r, m) ==
    [i \in 1..(Len(t) + m) |->
        IF i <= Len(t) THEN <<sector_list[i], t[i]>>
        ELSE <<ReitName(i - Len(t)), r[((i - Len(t) - 1) % Len(r)) + 1]>>]

PairSets == {{high_corr_pairs[p][1], high_corr_pairs[p][2]} : p \in 1..Len(high_corr_pairs)}

PartialSets ==
    {{}} \cup {{s} : s \in SectorNames} \cup PairSets
         \cup {SectorNames \ {s} : s \in SectorNames}

Inputs ==
    \* the example portfolio with weight moved between two sectors
    {Portfolio(sector_list, SectorNames, Transfer(example_weights, a, b, d)) :
        a \in SectorNames, b \in SectorNames, d \in 0..MaxShift}
    \* one sector's weight replaced in the example or in a level portfolio
    \cup {Portfolio(sector_list, SectorNames, [w EXCEPT ![a] = v]) :
        w \in {example_weights} \cup {Level(c) : c \in Levels},
        a \in SectorNames, v \in EditValues}
    \* other insertion orders
    \cup {Portfolio(Rotation(base, k), SectorNames, w) :
        base \in {sector_list, Reverse(sector_list)},
        k \in 0..MaxRotation, w \in {example_weights, Level(1)}}
    \* a zero total made of one positive and one negative weight
    \cup {Portfolio(sector_list, SectorNames, Transfer(Level(0), a, b, 1)) :
        a \in SectorNames, b \in SectorNames}
    \* a twelfth sector whose name is not in sector_list
    \cup {Portfolio(Append(sector_list, x), SectorNames \cup {x}, WithExtra(w, x, v)) :
        x \in ExtraNames, w \in {example_weights, Level(1)}, v \in EditValues}
    \* up to MaxReits sectors whose names contain 'Real Estate'
    \cup {ReitPortfolio(t, r, m) :
        t \in TableWeights, r \in ReitPatterns, m \in 1..MaxReits}
    \* portfolios that hold only some of the sectors
    \cup {Portfolio(sector_list, P, w) :
        P \in PartialSets, w \in {example_weights, Level(100)}}

\* ------------------------------------------------------------------------
\* check_portfolio_rules as a pipeline
\* ------------------------------------------------------------------------
VARIABLES
    sector_weights,   \* the argument: <<name, raw weight>> in insertion order
    pc,               \* the section about to run, "done" or "raised"
    outcome,          \* "running", "returned" or the exception raised
    sectors,          \* list(sector_weights.keys())
    weights,          \* the normalized weights (weight_series)
    report,           \* input_weights, checks, summary
    max_weight,       \* locals of the rule sections
    comps,
    marks,
    comp_weights,
    defensive_sum,
    reit_sum,
    em_sum

vars == <<sector_weights, pc, outcome, sectors, weights, report, max_weight,
          comps, marks, comp_weights, defensive_sum, reit_sum, em_sum>>

Unset == [k |-> "unset"]

Init ==
    /\ sector_weights \in Inputs
    /\ pc = "normalize"
    /\ outcome = "running"
    /\ sectors = << >>
    /\ weights = << >>
    /\ report = Unset
    /\ max_weight = Unset
    /\ comps = Unset
    /\ marks = Unset
    /\ comp_weights = Unset
    /\ defensive_sum = Unset
    /\ reit_sum = Unset
    /\ em_sum = Unset

\* raise exc: the call ends, no report is returned
Raise(exc) ==
    /\ pc' = "raised"
    /\ outcome' = exc

\* lines 28-38
NormalizeStep ==
    /\ pc = "normalize"
    /\ sectors' = [i \in 1..Len(sector_weights) |-> sector_weights[i][1]]
    /\ weights' = Normalize([i \in 1..Len(sector_weights) |-> sector_weights[i][2]])
    /\ report' = [input_weights |-> weights', checks |-> << >>, summary |-> Unset]
    /\ pc' = "rule1"
    /\ UNCHANGED <<sector_weights, outcome, max_weight, comps, marks, comp_weights,
                   defensive_sum, reit_sum, em_sum>>

\* lines 40-56; np.argmax raises ValueError on an empty array
Rule1 ==
    /\ pc = "rule1"
    /\ IF weights = << >>
       THEN /\ Raise("ValueError")
            /\ UNCHANGED <<report, max_weight>>
       ELSE /\ max_weight' = weights[ArgMax(weights)]
            /\ report' = [report EXCEPT !.checks = Append(@,
                   [rule |-> 1, status |-> Rule1Status(max_weight'),
                    sector |-> sectors[ArgMax(weights)]])]
            /\ pc' = "rule2"
            /\ UNCHANGED outcome
    /\ UNCHANGED <<sector_weights, sectors, weights, comps, marks, comp_weights,
                   defensive_sum, reit_sum, em_sum>>

\* lines 58-96; sectors.index raises ValueError for a name not in the list
Rule2 ==
    /\ pc = "rule2"
    /\ IF FirstMissingPair(sectors, 1) # 0
       THEN /\ Raise("ValueError")
            /\ UNCHANGED <<report, comps, marks, comp_weights>>
       ELSE /\ comps' = connected_components_from_adj(Adjacency(CorrMatrix(sectors)))
            /\ marks' = marking_order(Adjacency(CorrMatrix(sectors)))
            /\ comp_weights' = [c \in 1..Len(comps') |->
                                   comp_weight(sectors, weights, comps'[c])]
            /\ report' = [report EXCEPT !.checks =
                   Append(@, Rule2Finding(sectors, comps', comp_weights'))]
            /\ pc' = "rule3"
            /\ UNCHANGED outcome
    /\ UNCHANGED <<sector_weights, sectors, weights, max_weight,
                   defensive_sum, reit_sum, em_sum>>

\* lines 98-112
Rule3 ==
    /\ pc = "rule3"
    /\ defensive_sum' = DefensiveSum(sectors, weights)
    /\ report' = [report EXCEPT !.checks = Append(@,
           [rule |-> 3, status |-> Rule3Status(defensive_sum')])]
    /\ pc' = "rule4"
    /\ UNCHANGED <<sector_weights, outcome, sectors, weights, max_weight, comps,
                   marks, comp_weights, reit_sum, em_sum>>

\* lines 114-128
Rule4 ==
    /\ pc = "rule4"
    /\ reit_sum' = ReitSum(sectors, weights)
    /\ report' = [report EXCEPT !.checks = Append(@,
           [rule |-> 4, status |-> Rule4Status(reit_sum')])]
    /\ pc' = "rule5"
    /\ UNCHANGED <<sector_weights, outcome, sectors, weights, max_weight, comps,
                   marks, comp_weights, defensive_sum, em_sum>>

\* lines 130-146
Rule5 ==
    /\ pc = "rule5"
    /\ em_sum' = EmSum(sectors, weights)
    /\ report' = [report EXCEPT !.checks = Append(@,
           [rule |-> 5, status |-> Rule5Status(em_sum')])]
    /\ pc' = "summary"
    /\ UNCHANGED <<sector_weights, outcome, sectors, weights, max_weight, comps,
                   marks, comp_weights, defensive_sum, reit_sum>>

\* lines 148-156
Summary ==
    /\ pc = "summary"
    /\ report' = [report EXCEPT !.summary = SummaryOf(report.checks)]
    /\ pc' = "return"
    /\ UNCHANGED <<sector_weights, outcome, sectors, weights, max_weight, comps,
                   marks, comp_weights, defensive_sum, reit_sum, em_sum>>

\* lines 158-163 (verbose only prints; it changes nothing that is returned)
Return ==
    /\ pc = "return"
    /\ pc' = "done"
    /\ outcome' = "returned"
    /\ UNCHANGED <<sector_weights, sectors, weights, report, max_weight, comps,
                   marks, comp_weights, defensive_sum, reit_sum, em_sum>>

Next ==
    \/ NormalizeStep
    \/ Rule1
    \/ Rule2
    \/ Rule3
    \/ Rule4
    \/ Rule5
    \/ Summary
    \/ Return

Spec == Init /\ [][Next]_vars

\* ------------------------------------------------------------------------
\* Vocabulary of the properties
\* ------------------------------------------------------------------------
Terminal == pc \in {"done", "raised"}

\* the Rule 1 finding is in report.checks
AfterRule1 == pc \notin {"normalize", "rule1"} /\ Len(report.checks) >= 1

\* the Rule 2 finding is in report.checks
AfterRule2 == pc \in {"rule3", "rule4", "rule5", "summary", "return", "done"}

InputNames == {sector_weights[i][1] : i \in 1..Len(sector_weights)}

InputTotal == IntSum([i \in 1..Len(sector_weights) |-> sector_weights[i][2]])

\* the inputs the evaluator is specified to accept: at least one entry, no
\* negative weight, a total that is not zero
InputValid ==
    /\ Len(sector_weights) > 0
    /\ \A i \in 1..Len(sector_weights) : sector_weights[i][2] >= 0
    /\ InputTotal # 0

\* some table pair names a sector that the portfolio does not hold
LacksPairSector ==
    \E p \in 1..Len(high_corr_pairs) :
        {high_corr_pairs[p][1], high_corr_pairs[p][2]} \ InputNames # {}

HARD == "HARD_VIOLATION"
SOFT == "SOFT_WARNING"

F(t) == FromInt(t)

Components == report.checks[2].components
ViolationEntries == report.checks[2].violations

\* the table lists a and b as a pair
Paired(a, b) ==
    \E p \in 1..Len(high_corr_pairs) :
        {a, b} = {high_corr_pairs[p][1], high_corr_pairs[p][2]}

\* the sectors of present reachable from S over table pairs
RECURSIVE LinkedSet(_, _)
LinkedSet(S, present) ==
    LET N == S \cup {b \in present : \E a \in S : Paired(a, b)}
    IN  IF N = S THEN S ELSE LinkedSet(N, present)

SameCluster(a, b) ==
    \E c \in 1..Len(Components) : {a, b} \subseteq Range(Components[c].members)

\* the listed clusters partition the input sector set
ClustersPartition ==
    /\ \A s \in InputNames :
          /\ Cardinality({c \in 1..Len(Components) :
                             s \in Range(Components[c].members)}) = 1
          /\ \A c \in 1..Len(Components) :
                Cardinality({k \in 1..Len(Components[c].members) :
                                Components[c].members[k] = s}) <= 1
    /\ \A c \in 1..Len(Components) :
          /\ Components[c].members # << >>
          /\ Range(Components[c].members) \subseteq InputNames

MinOf(S) == CHOOSE x \in S : \A y \in S : x <= y

CountStatus(st) ==
    Cardinality({i \in 1..Len(report.checks) : report.checks[i].status = st})

\* ------------------------------------------------------------------------
\* C1
\* ------------------------------------------------------------------------
\* C1: when a pair of the correlation table names a sector that the (valid)
\* portfolio does not hold, the call still returns a complete report; for
\* {Energy: 100} Rules 1, 3 and 5 are HARD_VIOLATION and the singleton
\* cluster {Energy} is listed with a HARD_VIOLATION entry.
C1_AbsentPairSectorStillReported ==
    (Terminal /\ InputValid /\ LacksPairSector) =>
        /\ outcome = "returned"
        /\ Len(report.checks) = 5
        /\ (sector_weights = <<<<"Energy", 100>>>> =>
              /\ report.checks[1].status = HARD
              /\ report.checks[3].status = HARD
              /\ report.checks[5].status = HARD
              /\ Components = <<[members |-> <<"Energy">>]>>
              /\ ViolationEntries = <<[status |-> HARD, members |-> <<"Energy">>]>>)

\* ------------------------------------------------------------------------
\* C2
\* ------------------------------------------------------------------------
\* C2: an empty mapping, a negative weight or a zero total ends the call
\* with InputError before any rule has produced a finding, and no report
\* is returned.
C2_InvalidInputRejected ==
    (Terminal /\ ~InputValid) =>
        /\ outcome = "InputError"
        /\ report.checks = << >>

\* ------------------------------------------------------------------------
\* C3
\* ------------------------------------------------------------------------
\* C3: for every (valid) input portfolio the call lists clusters in Rule 2
\* that partition the input sectors: each sector in exactly one cluster, no
\* empty cluster, no member from outside the input.
C3_EveryInputPartitioned ==
    (Terminal /\ InputValid) =>
        /\ Len(report.checks) >= 2
        /\ ClustersPartition

\* What does hold: whenever Rule 2 has listed clusters, they partition the
\* input sectors.
ListedClustersPartition == AfterRule2 => ClustersPartition

\* ------------------------------------------------------------------------
\* C4
\* ------------------------------------------------------------------------
\* C4: two distinct input sectors are listed in the same cluster exactly
\* when a chain of table pairs over sectors of the portfolio links them,
\* and no sector is adjacent to itself.
C4_ClustersAreLinkedSets ==
    AfterRule2 =>
        /\ \A a \in InputNames :
              {b \in InputNames : SameCluster(a, b)} = LinkedSet({a}, InputNames)
        /\ \A i \in 1..Len(sectors) : ~Adjacency(CorrMatrix(sectors))[i][i]

\* a report whose first cluster joins two sectors that no pair lists
\* together (linked only through a third)
C4_Witness ==
    /\ pc = "done"
    /\ SameCluster("Information Technology", "Consumer Discretionary")
    /\ ~Paired("Information Technology", "Consumer Discretionary")
    /\ ~SameCluster("Information Technology", "Energy")

\* ------------------------------------------------------------------------
\* C5
\* ------------------------------------------------------------------------
\* C5: in a returned report the two summary counts are the numbers of
\* top-level findings with status HARD_VIOLATION and SOFT_WARNING, Rule 2
\* is ANALYZED, so its nested cluster entries change neither count, and
\* both counts are at most 4.
C5_SummaryCountsTopLevel ==
    outcome = "returned" =>
        /\ report.summary.hard_violations_count = CountStatus(HARD)
        /\ report.summary.soft_warnings_count = CountStatus(SOFT)
        /\ report.checks[2].status = "ANALYZED"
        /\ report.summary.hard_violations_count <= 4
        /\ report.summary.soft_warnings_count <= 4
        /\ Range(report.summary.hard_violations) \subseteq Range(report.checks)
        /\ Range(report.summary.soft_warnings) \subseteq Range(report.checks)

\* a returned report of a valid input with both kinds of cluster entry
\* absent from the counts: a nested entry, and both counts 0
C5_Witness ==
    /\ outcome = "returned"
    /\ InputValid
    /\ ViolationEntries # << >>
    /\ report.summary.hard_violations_count = 0
    /\ report.summary.soft_warnings_count = 0

\* ------------------------------------------------------------------------
\* C6
\* ------------------------------------------------------------------------
\* C6: every valid input gets a report whose checks are the five findings
\* of Rules 1 to 5 in that order.
C6_AllFiveRulesForValidInput ==
    (Terminal /\ InputValid) =>
        /\ outcome = "returned"
        /\ Len(report.checks) = 5
        /\ \A r \in 1..5 : report.checks[r].rule = r

\* ------------------------------------------------------------------------
\* C7
\* ------------------------------------------------------------------------
\* C7: Rule 1's status follows the largest normalized weight m (when m is
\* a number): HARD_VIOLATION iff m > 40, SOFT_WARNING iff 30 < m <= 40,
\* OK iff m <= 30; exactly 40 gives SOFT_WARNING and exactly 30 gives OK.
C7_Rule1StrictThresholds ==
    (AfterRule1 /\ max_weight.k # "nan") =>
        /\ \A i \in 1..Len(weights) : FLe(weights[i], max_weight)
        /\ \E i \in 1..Len(weights) : weights[i] = max_weight
        /\ report.checks[1].rule = 1
        /\ report.checks[1].status = HARD <=> FGt(max_weight, F(40))
        /\ report.checks[1].status = SOFT <=>
              (FGt(max_weight, F(30)) /\ FLe(max_weight, F(40)))
        /\ report.checks[1].status = "OK" <=> FLe(max_weight, F(30))
        /\ max_weight = F(40) => report.checks[1].status = SOFT
        /\ max_weight = F(30) => report.checks[1].status = "OK"

\* a valid input whose largest normalized weight is exactly 40.0
C7_Witness ==
    /\ pc = "done"
    /\ InputValid
    /\ max_weight = F(40)
    /\ report.checks[1].status = SOFT

\* ------------------------------------------------------------------------
\* C8
\* ------------------------------------------------------------------------
\* C8: Rule 3's status follows d, the normalized weight of the defensive
\* sectors present: HARD_VIOLATION iff d < 5, SOFT_WARNING iff 5 <= d < 10,
\* OK iff d >= 10; a (valid) portfolio with no defensive sector gets a
\* report whose Rule 3 is HARD_VIOLATION.
C8_DefensiveFloor ==
    (Terminal /\ InputValid) =>
        /\ (Range(defensive) \cap InputNames = {}) =>
              /\ outcome = "returned"
              /\ report.checks[3].status = HARD
        /\ outcome = "returned" =>
              /\ report.checks[3].status = HARD <=> FLt(defensive_sum, F(5))
              /\ report.checks[3].status = SOFT <=>
                    (FGe(defensive_sum, F(5)) /\ FLt(defensive_sum, F(10)))
              /\ report.checks[3].status = "OK" <=> FGe(defensive_sum, F(10))

\* ------------------------------------------------------------------------
\* C9
\* ------------------------------------------------------------------------
\* the violation entries of the cluster listed at position c
EntriesOf(c) ==
    {v \in 1..Len(ViolationEntries) :
        ViolationEntries[v].members = Components[c].members}

\* C9: Rule 2 lists every cluster, and a cluster has a violation entry
\* exactly when its weight w exceeds 50: HARD_VIOLATION iff w > 60,
\* SOFT_WARNING iff 50 < w <= 60, none when w <= 50.
C9_ClusterEntriesStrict ==
    AfterRule2 =>
        /\ report.checks[2].rule = 2
        /\ Len(Components) = Len(comps)
        /\ \A s \in InputNames : \E c \in 1..Len(Components) :
              s \in Range(Components[c].members)
        /\ \A c \in 1..Len(Components) :
              /\ Components[c].members = [k \in 1..Len(comps[c]) |-> sectors[comps[c][k]]]
              /\ EntriesOf(c) # {} <=> FGt(comp_weights[c], F(50))
              /\ FLe(comp_weights[c], F(50)) => EntriesOf(c) = {}
              /\ Cardinality(EntriesOf(c)) <= 1
              /\ \A v \in EntriesOf(c) :
                    /\ ViolationEntries[v].status = HARD <=> FGt(comp_weights[c], F(60))
                    /\ ViolationEntries[v].status = SOFT <=>
                          (FGt(comp_weights[c], F(50)) /\ FLe(comp_weights[c], F(60)))
        /\ \A v \in 1..Len(ViolationEntries) : \E c \in 1..Len(Components) : v \in EntriesOf(c)

\* scenario A: the example portfolio, whose first cluster weighs exactly
\* 50.0 and gets no entry
C9_Witness ==
    /\ pc = "done"
    /\ sector_weights = Portfolio(sector_list, SectorNames, example_weights)
    /\ Components[1].members =
          <<"Information Technology", "Communication Services", "Consumer Discretionary">>
    /\ comp_weights[1] = F(50)
    /\ ViolationEntries = << >>

\* ------------------------------------------------------------------------
\* C10
\* ------------------------------------------------------------------------
ClustersInInputOrder ==
    \A c \in 1..Len(comps) : \A d \in 1..Len(comps) :
        c < d => MinOf(Range(comps[c])) < MinOf(Range(comps[d]))

EarliestMemberFirst ==
    \A c \in 1..Len(comps) : comps[c][1] = MinOf(Range(comps[c]))

\* in cluster c, the position of the member whose scan marked the member at
\* position k: the first member emitted that is paired with it
MarkedBy(c, k) ==
    MinOf({j \in 1..Len(comps[c]) :
              Paired(sectors[comps[c][j]], sectors[comps[c][k]])})

\* C10 as stated: clusters in input order of their earliest member, that
\* member first, the rest in the order in which they were marked visited.
C10_MembersInMarkingOrder ==
    AfterRule2 =>
        /\ ClustersInInputOrder
        /\ EarliestMemberFirst
        /\ \A c \in 1..Len(comps) : comps[c] = marks[c]

\* C10 amended: clusters in input order of their earliest member, that
\* member first, the rest in the order in which the traversal popped them:
\* each after the member whose scan marked it, and members marked by the
\* same scan in the reverse of the order in which they were marked.
C10_MembersInPopOrder ==
    AfterRule2 =>
        /\ ClustersInInputOrder
        /\ EarliestMemberFirst
        /\ \A c \in 1..Len(comps) :
              /\ Range(comps[c]) = Range(marks[c])
              /\ Len(comps[c]) = Len(marks[c])
              /\ \A k \in 2..Len(comps[c]) : MarkedBy(c, k) < k
              /\ \A k \in 2..Len(comps[c]) : \A l \in 2..Len(comps[c]) :
                    (k < l /\ MarkedBy(c, k) = MarkedBy(c, l)) =>
                        IndexOf(marks[c], comps[c][k]) > IndexOf(marks[c], comps[c][l])

\* a cluster whose first member marked two others in one scan
C10_Witness ==
    /\ pc = "done"
    /\ \E c \in 1..Len(comps) :
          /\ Len(comps[c]) = 3
          /\ MarkedBy(c, 2) = 1
          /\ MarkedBy(c, 3) = 1
          /\ comps[c] # marks[c]
==========================================================================
